---- MODULE Spec2Model ----
(***************************************************************************)
(* A wide MergeTree data part (MergeTreeDataPartWide): its columns, its    *)
(* checksum index, the mark files on its storage, the decoding of the      *)
(* index granularity, the consistency check, hasColumnFiles and the        *)
(* column size calculation.                                                *)
(*                                                                         *)
(* File names are strings built exactly as the code builds them            *)
(* (stream_name + ".bin", stream_name + marks_file_extension).  The 128    *)
(* bit hash of a name is modelled as an injective renaming ("#" in front   *)
(* of the hashed text), so that hashing "n.x" and hashing "n.x.mrk" give   *)
(* different names, as they do in the program.                             *)
(***************************************************************************)
EXTENDS Integers, Sequences, FiniteSets, TLC

VARIABLES
    columns,            \* IMergeTreeDataPart::columns, in part order (column names)
    serializations,     \* serialization kind of every column of the part
    checksums,          \* checksums.files: file name -> [file_size, uncompressed_size]
    storage,            \* mark files of the part storage: file name -> [size, marks, tail]
    mark_type,          \* index_granularity_info.mark_type: [adaptive, compressed]
    rows_count,         \* IMergeTreeDataPart::rows_count
    index_granularity,  \* [marks: per-mark rows, initialized]
    pc,                 \* "constructed" | "loaded" | "failed" (loadIndexGranularity)
    last,               \* the last call made on the part and what it returned or threw
    phase,              \* "load" | "ready" | "failed": the lifecycle of the part
    calls,              \* the calls in flight on the ready part, per caller
    send_progress,      \* LocalConnection::send_progress
    state,              \* LocalConnection::state, the optional LocalQueryState
    next_packet_type,   \* LocalConnection::next_packet_type, an optional packet type
    query,              \* the query behind state->io: its source and what it has done
    received            \* the packets receivePacket has returned for the query

vars == <<columns, serializations, checksums, storage, mark_type, rows_count,
          index_granularity, pc, last, phase, calls,
          send_progress, state, next_packet_type, query, received>>

\* the variables of a LocalConnection
connection_vars == <<send_progress, state, next_packet_type, query, received>>

----------------------------------------------------------------------------
(* Bounds of the model *)

\* columns of a part
MaxColumns == 2
\* records of a mark file
MaxMarks == 2
\* rows_count of a part, and the rows of one adaptive mark
MaxRows == 2

----------------------------------------------------------------------------
(* Names, types and serializations (collaborators of the part) *)

DATA_FILE_EXTENSION == ".bin"

ColumnNames == {"a", "n.x", "n.y"}

SerializationKinds == {"DEFAULT", "SPARSE"}

\* IDataType::isValueRepresentedByNumber: "a" is a UInt16, n.x and n.y are arrays
isValueRepresentedByNumber(column) == column = "a"

\* IDataType::haveSubtypes: an array has the nested type as its subtype
haveSubtypes(column) == column # "a"

\* IDataType::getSizeOfValueInMemory of UInt16
getSizeOfValueInMemory == 2

\* ISerialization::enumerateStreams + ISerialization::getFileNameForStream:
\* the stream names of a column, in enumeration order.  The two array columns
\* of the nested structure n share the stream of the array sizes.
StreamNamesOfKind(column, kind) ==
    IF column = "a"
    THEN IF kind = "SPARSE" THEN <<"a.sparse.idx", "a">> ELSE <<"a">>
    ELSE <<"n.size0", column>>

StreamNames(column) == StreamNamesOfKind(column, serializations[column])

\* sipHash128String: an injective renaming
sipHash128String(name) == "#" \o name

\* MarkType::getFileExtension
getFileExtensionOf(mt) ==
    (IF mt.compressed THEN ".c" ELSE ".") \o (IF mt.adaptive THEN "mrk2" ELSE "mrk")

\* IMergeTreeDataPart::getMarksFileExtension
getMarksFileExtension == getFileExtensionOf(mark_type)

\* MergeTreeIndexGranularityInfo::getMarkSizeInBytes for a wide part
\* (two 8-byte offsets, and the 8-byte granularity of an adaptive mark)
MarkSizeNonAdaptive == 16
MarkSizeAdaptive == 24
getMarkSizeInBytesOf(mt) == IF mt.adaptive THEN MarkSizeAdaptive ELSE MarkSizeNonAdaptive
getMarkSizeInBytes == getMarkSizeInBytesOf(mark_type)

\* index_granularity_info.fixed_index_granularity (the index_granularity setting)
fixed_index_granularity == 3

\* MergeTreeDataPartChecksums::empty
checksumsEmpty == DOMAIN checksums.files = {}

\* MergeTreeDataPartChecksums::getFileNameOrHash: the literal name when the
\* index registers its data file, the hash of the name otherwise
getFileNameOrHash(name) ==
    IF (name \o ".bin") \in DOMAIN checksums.files THEN name ELSE sipHash128String(name)

Range(s) == {s[i] : i \in DOMAIN s}

SeqSum(s) ==
    LET Sum[i \in 0..Len(s)] == IF i = 0 THEN 0 ELSE Sum[i - 1] + s[i]
    IN Sum[Len(s)]

----------------------------------------------------------------------------
(* Column Size Calculator: getColumnSizeImpl and calculateEachColumnSizes *)

ZeroSize == [data_compressed |-> 0, data_uncompressed |-> 0, marks |-> 0]

NoSizes == [c \in {} |-> ZeroSize]

\* ColumnSize::add
SizeAdd(x, y) ==
    [data_compressed |-> x.data_compressed + y.data_compressed,
     data_uncompressed |-> x.data_uncompressed + y.data_uncompressed,
     marks |-> x.marks + y.marks]

\* a bug: shared streams are not recognised, every column counts all its streams
AlreadyProcessed_Never(processed_substreams, stream_name, dedup) == FALSE

\* "processed_substreams && !processed_substreams->insert(stream_name).second":
\* dedup says that the pointer is not null
AlreadyProcessed(processed_substreams, stream_name, dedup) ==
    dedup /\ stream_name \in processed_substreams

\* the sizes the checksums give for one stream name
StreamSize(stream_name) ==
    LET bin == stream_name \o ".bin"
        mrk == stream_name \o getMarksFileExtension
        has_bin == bin \in DOMAIN checksums.files
        has_mrk == mrk \in DOMAIN checksums.files
    IN [data_compressed |-> IF has_bin THEN checksums.files[bin].file_size ELSE 0,
        data_uncompressed |-> IF has_bin THEN checksums.files[bin].uncompressed_size ELSE 0,
        marks |-> IF has_mrk THEN checksums.files[mrk].file_size ELSE 0]

\* a bug: the stream is looked up in the set but never inserted into it
ColumnSizeOfStream_NoInsert(st, full_stream_name, dedup) ==
    LET stream_name == getFileNameOrHash(full_stream_name)
    IN IF AlreadyProcessed(st.processed, stream_name, dedup)
       THEN st
       ELSE [size |-> SizeAdd(st.size, StreamSize(stream_name)),
             processed |-> st.processed]

\* the callback getColumnSizeImpl gives to enumerateStreams, for one stream;
\* st = [size, processed]
ColumnSizeOfStream(st, full_stream_name, dedup) ==
    LET stream_name == getFileNameOrHash(full_stream_name)
    IN IF AlreadyProcessed(st.processed, stream_name, dedup)
       THEN st
       ELSE [size |-> SizeAdd(st.size, StreamSize(stream_name)),
             processed |-> IF dedup THEN st.processed \cup {stream_name} ELSE st.processed]

RECURSIVE ColumnSizeOfStreams(_, _, _, _)
ColumnSizeOfStreams(streams, i, st, dedup) ==
    IF i > Len(streams)
    THEN st
    ELSE ColumnSizeOfStreams(streams, i + 1, ColumnSizeOfStream(st, streams[i], dedup), dedup)

\* returns the size of the column and the set of processed streams after it
getColumnSizeImpl(column, processed_substreams, dedup) ==
    IF checksumsEmpty
    THEN [size |-> ZeroSize, processed |-> processed_substreams]
    ELSE ColumnSizeOfStreams(StreamNames(column), 1,
                             [size |-> ZeroSize, processed |-> processed_substreams], dedup)

\* the condition of the row count check of a debug build
IsTrivialColumn(column) ==
    /\ rows_count # 0
    /\ isValueRepresentedByNumber(column)
    /\ ~haveSubtypes(column)
    /\ serializations[column] = "DEFAULT"

\* a bug: the bytes are compared with rows * width, without the division
RowsCountMismatch_NoDivision(column, size) ==
    /\ IsTrivialColumn(column)
    /\ size.data_uncompressed # rows_count * getSizeOfValueInMemory

\* the debug build throws LOGICAL_ERROR for this column
RowsCountMismatch(column, size) ==
    /\ IsTrivialColumn(column)
    /\ (size.data_uncompressed \div getSizeOfValueInMemory) # rows_count

\* one iteration of the loop of calculateEachColumnSizes;
\* st = [status, err_column, each, total, processed]
CalculateColumn(st, column, debug) ==
    LET r == getColumnSizeImpl(column, st.processed, TRUE)
        each == [c \in DOMAIN st.each \cup {column} |->
                    IF c = column THEN r.size ELSE st.each[c]]
        total == SizeAdd(st.total, r.size)
    IN IF debug /\ RowsCountMismatch(column, r.size)
       THEN [status |-> "LOGICAL_ERROR", err_column |-> column, each |-> each,
             total |-> total, processed |-> r.processed]
       ELSE [status |-> "OK", err_column |-> "", each |-> each,
             total |-> total, processed |-> r.processed]

RECURSIVE CalculateColumns(_, _, _)
CalculateColumns(i, st, debug) ==
    IF i > Len(columns) \/ st.status # "OK"
    THEN st
    ELSE CalculateColumns(i + 1, CalculateColumn(st, columns[i], debug), debug)

\* debug: the build has the row count check (NDEBUG is not defined)
calculateEachColumnSizes(debug) ==
    CalculateColumns(1, [status |-> "OK", err_column |-> "", each |-> NoSizes,
                         total |-> ZeroSize, processed |-> {}], debug)

----------------------------------------------------------------------------
(* Consistency Checker: checkConsistency *)

Passed == [status |-> "OK", column |-> "", file |-> ""]

Thrown(code, column, file) == [status |-> code, column |-> column, file |-> file]

\* a file the full-metadata check does not find in the checksums
NoChecksumFor(file_name) == file_name \notin DOMAIN checksums.files

\* a bug: only the mark file is looked up
CheckStreamChecksums_MarksOnly(column, full_stream_name) ==
    LET stream_name == getFileNameOrHash(full_stream_name)
        mrk_file_name == stream_name \o getFileExtensionOf(mark_type)
    IN IF NoChecksumFor(mrk_file_name)
       THEN Thrown("NO_FILE_IN_DATA_PART", column, mrk_file_name)
       ELSE Passed

\* a bug: the data file is looked up before the mark file
CheckStreamChecksums_DataFirst(column, full_stream_name) ==
    LET stream_name == getFileNameOrHash(full_stream_name)
        mrk_file_name == stream_name \o getFileExtensionOf(mark_type)
        bin_file_name == stream_name \o DATA_FILE_EXTENSION
    IN IF NoChecksumFor(bin_file_name)
       THEN Thrown("NO_FILE_IN_DATA_PART", column, bin_file_name)
       ELSE IF NoChecksumFor(mrk_file_name)
            THEN Thrown("NO_FILE_IN_DATA_PART", column, mrk_file_name)
            ELSE Passed

\* the callback of the full-metadata branch, for one stream of one column:
\* the mark file is looked up before the data file
CheckStreamChecksums(column, full_stream_name) ==
    LET stream_name == getFileNameOrHash(full_stream_name)
        mrk_file_name == stream_name \o getFileExtensionOf(mark_type)
        bin_file_name == stream_name \o DATA_FILE_EXTENSION
    IN IF NoChecksumFor(mrk_file_name)
       THEN Thrown("NO_FILE_IN_DATA_PART", column, mrk_file_name)
       ELSE IF NoChecksumFor(bin_file_name)
            THEN Thrown("NO_FILE_IN_DATA_PART", column, bin_file_name)
            ELSE Passed

\* the path of the mark file the branch without checksums looks at: the literal
\* path, or, when no such file exists, the hash OF THE PATH plus the extension
MarksPathWithoutChecksums(full_stream_name) ==
    LET marks_file_extension == getFileExtensionOf(mark_type)
        file_path == full_stream_name \o marks_file_extension
    IN IF file_path \in DOMAIN storage
       THEN file_path
       ELSE sipHash128String(file_path) \o marks_file_extension

\* a mark file size the branch without checksums refuses as empty
IsEmptyMarksFile(file_size) == file_size = 0

\* the callback of the branch without checksums, for one stream;
\* st = [res, marks_size], marks_size = -1 stands for std::nullopt
CheckStreamMarks(st, column, full_stream_name) ==
    LET file_path == MarksPathWithoutChecksums(full_stream_name)
    IN IF file_path \notin DOMAIN storage
       THEN st
       ELSE LET file_size == storage[file_path].size
            IN IF IsEmptyMarksFile(file_size)
               THEN [st EXCEPT !.res = Thrown("BAD_SIZE_OF_FILE_IN_DATA_PART", "", file_path)]
               ELSE IF st.marks_size = -1
                    THEN [st EXCEPT !.marks_size = file_size]
                    ELSE IF file_size # st.marks_size
                         THEN [st EXCEPT !.res = Thrown("BAD_SIZE_OF_FILE_IN_DATA_PART", "", "")]
                         ELSE st

\* a bug: the walk ends after the streams of the first column
RECURSIVE CheckWalk_FirstColumnOnly(_, _, _, _)
CheckWalk_FirstColumnOnly(i, j, st, with_checksums) ==
    IF st.res.status # "OK" \/ i > Len(columns) \/ i > 1
    THEN st
    ELSE LET streams == StreamNames(columns[i])
         IN IF j > Len(streams)
            THEN st
            ELSE CheckWalk_FirstColumnOnly(i, j + 1,
                     IF with_checksums
                     THEN [st EXCEPT !.res = CheckStreamChecksums(columns[i], streams[j])]
                     ELSE CheckStreamMarks(st, columns[i], streams[j]),
                     with_checksums)

\* the streams of columns[i], from the j-th on, then the columns after it;
\* an exception ends the walk
RECURSIVE CheckWalk(_, _, _, _)
CheckWalk(i, j, st, with_checksums) ==
    IF st.res.status # "OK" \/ i > Len(columns)
    THEN st
    ELSE LET streams == StreamNames(columns[i])
         IN IF j > Len(streams)
            THEN CheckWalk(i + 1, 1, st, with_checksums)
            ELSE CheckWalk(i, j + 1,
                     IF with_checksums
                     THEN [st EXCEPT !.res = CheckStreamChecksums(columns[i], streams[j])]
                     ELSE CheckStreamMarks(st, columns[i], streams[j]),
                     with_checksums)

\* what checkConsistency(require_part_metadata) throws, or Passed.
\* checkConsistencyBase (IMergeTreeDataPart) is taken to have passed.
checkConsistency(require_part_metadata) ==
    IF ~checksumsEmpty
    THEN IF require_part_metadata
         THEN CheckWalk(1, 1, [res |-> Passed, marks_size |-> -1], TRUE).res
         ELSE Passed
    ELSE CheckWalk(1, 1, [res |-> Passed, marks_size |-> -1], FALSE).res

----------------------------------------------------------------------------
(* hasColumnFiles and getFileNameForColumn *)

\* the lambda check_stream_exists
check_stream_exists(stream_name) ==
    /\ (stream_name \o DATA_FILE_EXTENSION) \in DOMAIN checksums.files
    /\ (stream_name \o getFileExtensionOf(mark_type)) \in DOMAIN checksums.files

\* the name hasColumnFiles gives to check_stream_exists for a stream
HasColumnFilesStreamName(full_stream_name) == full_stream_name

hasColumnFiles(column) ==
    \A i \in DOMAIN StreamNames(column) :
        check_stream_exists(HasColumnFilesStreamName(StreamNames(column)[i]))

\* the resolved name of the first stream of the column ("" when it has none)
getFileNameForColumn(column) ==
    IF StreamNames(column) = <<>>
    THEN ""
    ELSE getFileNameOrHash(StreamNames(column)[1])

----------------------------------------------------------------------------
(* Mark Decoder: loadIndexGranularityImpl and loadIndexGranularity *)

\* MergeTreeIndexGranularityInfo::getMarksFilePath
getMarksFilePath(column_file_name) == column_file_name \o getFileExtensionOf(mark_type)

\* a bug: a cut record counts as a mark (the division rounds up)
MarksCountFromSize_RoundUp(marks_file_size) ==
    (marks_file_size + getMarkSizeInBytes - 1) \div getMarkSizeInBytes

\* a bug: the size is divided by the size of an adaptive record
MarksCountFromSize_AdaptiveRecord(marks_file_size) == marks_file_size \div MarkSizeAdaptive

\* "marks_file_size / index_granularity_info_.getMarkSizeInBytes()"
MarksCountFromSize(marks_file_size) == marks_file_size \div getMarkSizeInBytes

\* MergeTreeIndexGranularity::resizeWithFixedGranularity
resizeWithFixedGranularity(size, fixed_granularity) == [i \in 1..size |-> fixed_granularity]

\* a bug: the fixed granularity is appended instead of the one read
AppendMarkIfAdaptive_Fixed(marks, granularity) ==
    IF mark_type.adaptive THEN Append(marks, fixed_index_granularity) ELSE marks

\* MergeTreeIndexGranularity::appendMark, called for the marks of an adaptive format
AppendMarkIfAdaptive(marks, granularity) ==
    IF mark_type.adaptive THEN Append(marks, granularity) ELSE marks

\* a bug: the loop stops before the last record of the file
RECURSIVE ReadMarks_StopsEarly(_, _, _)
ReadMarks_StopsEarly(file, pos, st) ==
    IF pos >= Len(file.marks)
    THEN IF file.tail = 0
         THEN st
         ELSE [st EXCEPT !.status = "CANNOT_READ_ALL_DATA"]
    ELSE ReadMarks_StopsEarly(file, pos + 1,
                   [st EXCEPT !.marks_count = @ + 1,
                              !.marks = AppendMarkIfAdaptive(@, file.marks[pos])])

\* a bug: the bytes of a cut record are skipped as if the stream had ended
RECURSIVE ReadMarks_IgnoresCutRecord(_, _, _)
ReadMarks_IgnoresCutRecord(file, pos, st) ==
    IF pos > Len(file.marks)
    THEN st
    ELSE ReadMarks_IgnoresCutRecord(file, pos + 1,
                   [st EXCEPT !.marks_count = @ + 1,
                              !.marks = AppendMarkIfAdaptive(@, file.marks[pos])])

\* the loop "while (!marks_reader->eof())" over the (decompressed) content of
\* the file: its complete records, then file.tail bytes of a cut record.
\* st = [status, marks, marks_count].  A cut record is not the end of the
\* stream, and readBinary / readIntBinary throws in it: after 16 bytes of an
\* adaptive record the mark has been counted but not appended.
RECURSIVE ReadMarks(_, _, _)
ReadMarks(file, pos, st) ==
    IF pos > Len(file.marks)
    THEN IF file.tail = 0
         THEN st
         ELSE [st EXCEPT !.status = "CANNOT_READ_ALL_DATA",
                         !.marks_count = IF file.tail >= MarkSizeNonAdaptive THEN @ + 1 ELSE @]
    ELSE ReadMarks(file, pos + 1,
                   [st EXCEPT !.marks_count = @ + 1,
                              !.marks = AppendMarkIfAdaptive(@, file.marks[pos])])

\* the marks file does not exist
MarksFileMissing(marks_file_path) == marks_file_path \notin DOMAIN storage

\* a bug: a missing marks file is taken for a part without marks
OnMissingMarksFile_Tolerated(marks_file_path) ==
    [status |-> "OK", file |-> "", granularity |-> [marks |-> <<>>, initialized |-> TRUE]]

\* "throw Exception(NO_FILE_IN_DATA_PART, Marks file '{}' doesn't exist": nothing
\* has been decoded
OnMissingMarksFile(marks_file_path) ==
    [status |-> "NO_FILE_IN_DATA_PART", file |-> marks_file_path,
     granularity |-> index_granularity]

\* a bug: the table is filled and never marked initialized
setInitialized_Forgotten(marks) == [marks |-> marks, initialized |-> FALSE]

\* "index_granularity_.setInitialized()", the last statement of the decoder
setInitialized(marks) == [marks |-> marks, initialized |-> TRUE]

\* [status, file, granularity]: what is thrown and the index granularity left.
\* changeGranularityIfRequired is taken to have left mark_type as it is.
loadIndexGranularityImpl(any_column_file_name) ==
    LET marks_file_path == getMarksFilePath(any_column_file_name)
    IN IF MarksFileMissing(marks_file_path)
       THEN OnMissingMarksFile(marks_file_path)
       ELSE LET marks_file_size == storage[marks_file_path].size
            IN IF ~mark_type.adaptive /\ ~mark_type.compressed
               THEN [status |-> "OK", file |-> "",
                     granularity |->
                        setInitialized(resizeWithFixedGranularity(
                                           MarksCountFromSize(marks_file_size),
                                           fixed_index_granularity))]
               ELSE LET r == ReadMarks(storage[marks_file_path], 1,
                                 [status |-> "OK", marks |-> index_granularity.marks,
                                  marks_count |-> 0])
                    IN IF r.status # "OK"
                       THEN [status |-> r.status, file |-> marks_file_path,
                             granularity |-> [marks |-> r.marks, initialized |-> FALSE]]
                       ELSE [status |-> "OK", file |-> "",
                             granularity |->
                                setInitialized(IF mark_type.adaptive
                                               THEN r.marks
                                               ELSE resizeWithFixedGranularity(
                                                        r.marks_count, fixed_index_granularity))]

loadIndexGranularity ==
    IF columns = <<>>
    THEN [status |-> "NO_FILE_IN_DATA_PART", file |-> "", granularity |-> index_granularity]
    ELSE loadIndexGranularityImpl(getFileNameForColumn(columns[1]))

----------------------------------------------------------------------------
(* The parts the model starts from *)

\* lists of distinct columns
ColumnListsUpTo(n) ==
    {l \in UNION {[1..k -> ColumnNames] : k \in 0..n} :
        \A i, j \in DOMAIN l : i # j => l[i] # l[j]}

ColumnLists == ColumnListsUpTo(MaxColumns)

DefaultKinds(cols) == [c \in Range(cols) |-> "DEFAULT"]

\* "a" may be sparse; arrays have the default serialization
KindsOf(cols) ==
    {ser \in [Range(cols) -> SerializationKinds] :
        \A c \in Range(cols) : c # "a" => ser[c] = "DEFAULT"}

UsedStreams(cols, ser) ==
    UNION {Range(StreamNamesOfKind(cols[i], ser[cols[i]])) : i \in DOMAIN cols}

MarkTypes == [adaptive : BOOLEAN, compressed : BOOLEAN]

PlainMarks == [adaptive |-> FALSE, compressed |-> FALSE]

\* the name a stream is written under: its own, or its hash when the writer
\* replaced a long name
PhysicalName(stream, hashed) == IF hashed THEN sipHash128String(stream) ELSE stream

\* sizes that tell the streams apart in a sum
Weight(stream) ==
    CASE stream = "a" -> 1
      [] stream = "a.sparse.idx" -> 2
      [] stream = "n.size0" -> 4
      [] stream = "n.x" -> 8
      [] OTHER -> 16

\* what the checksums hold of one stream: under which name, and which files
ChecksumStates ==
    {s \in [hashed : BOOLEAN, bin : BOOLEAN, mrk : BOOLEAN] :
        (~s.bin /\ ~s.mrk) => ~s.hashed}

Complete(s) == s.bin /\ s.mrk

\* at most one stream of the part lacks a file in the checksums
ChecksumChoices(streams) ==
    {cs \in [streams -> ChecksumStates] :
        \A s1, s2 \in streams : (~Complete(cs[s1]) /\ ~Complete(cs[s2])) => s1 = s2}

AllRegistered(streams, hashed) ==
    [s \in streams |-> [hashed |-> hashed, bin |-> TRUE, mrk |-> TRUE]]

BuildChecksums(streams, cs, mt, unc_a) ==
    LET ext == getFileExtensionOf(mt)
        Bin(s) == PhysicalName(s, cs[s].hashed) \o ".bin"
        Mrk(s) == PhysicalName(s, cs[s].hashed) \o ext
        names == {Bin(s) : s \in {x \in streams : cs[x].bin}}
                    \cup {Mrk(s) : s \in {x \in streams : cs[x].mrk}}
        StreamOf(f) == CHOOSE s \in streams : f \in {Bin(s), Mrk(s)}
    IN [files |->
          [f \in names |->
             LET s == StreamOf(f)
             IN IF f = Bin(s)
                THEN [file_size |-> Weight(s),
                      uncompressed_size |-> IF s = "a" THEN unc_a ELSE 2 * Weight(s)]
                ELSE [file_size |-> Weight(s), uncompressed_size |-> Weight(s)]]]

NoChecksums == [files |-> [f \in {} |-> 0]]

\* a mark file: its size on storage, the granularities of its complete
\* records (0 for the records of a non-adaptive format, which have none) and
\* the bytes of a record cut by a truncation.  A compressed file is not as
\* long as its content.
MarkFile(mt, marks, tail) ==
    LET raw == Len(marks) * getMarkSizeInBytesOf(mt) + tail
    IN [size |-> IF mt.compressed /\ raw > 0 THEN 9 + (raw \div 8) ELSE raw,
        marks |-> marks,
        tail |-> tail]

\* n records, with the rows given for every adaptive mark
UniformMarks(mt, n, rows) == [i \in 1..n |-> IF mt.adaptive THEN rows ELSE 0]

\* what the storage holds of one stream
BuildStorage(streams, ss, mt) ==
    LET ext == getFileExtensionOf(mt)
        Mrk(s) == PhysicalName(s, ss[s].hashed) \o ext
        present == {s \in streams : ss[s].present}
        StreamOf(f) == CHOOSE s \in present : f = Mrk(s)
    IN [f \in {Mrk(s) : s \in present} |-> ss[StreamOf(f)].file]

\* every stream has its mark file, under the name the checksums use
StorageLike(streams, cs, mt, file) ==
    BuildStorage(streams,
                 [s \in streams |-> [present |-> TRUE, hashed |-> cs[s].hashed, file |-> file]],
                 mt)

NotCalled ==
    [op |-> "none", column |-> "", require |-> FALSE, debug |-> FALSE,
     status |-> "OK", err_column |-> "", err_file |-> "", result |-> TRUE,
     each |-> NoSizes, total |-> ZeroSize]

\* the threads that call a part once it is ready
Callers == {"reader1", "reader2"}

\* a caller that has no call in flight
Idle == [op |-> "idle", arg |-> FALSE, i |-> 0, st |-> <<>>]

InitObject ==
    /\ index_granularity = [marks |-> <<>>, initialized |-> FALSE]
    /\ pc = "constructed"
    /\ last = NotCalled
    /\ phase = "load"
    /\ calls = [t \in Callers |-> Idle]

\* parts that differ in what their checksums register
InitChecksums ==
    \E cols \in ColumnLists, mt \in {PlainMarks, [adaptive |-> TRUE, compressed |-> TRUE]} :
      LET ser == DefaultKinds(cols)
          streams == UsedStreams(cols, ser)
      IN \E cs \in ChecksumChoices(streams) :
            /\ columns = cols
            /\ serializations = ser
            /\ mark_type = mt
            /\ rows_count = 1
            /\ checksums = BuildChecksums(streams, cs, mt, getSizeOfValueInMemory)
            /\ storage = StorageLike(streams, cs, mt, MarkFile(mt, UniformMarks(mt, 1, 1), 0))

\* parts that differ in their row count and in the bytes of the numeric column
InitRows ==
    \E cols \in ColumnLists, rows \in 0..MaxRows,
       unc_a \in 0..(MaxRows * getSizeOfValueInMemory + 1) :
      \E ser \in KindsOf(cols) :
        LET streams == UsedStreams(cols, ser)
            cs == AllRegistered(streams, FALSE)
        IN /\ columns = cols
           /\ serializations = ser
           /\ mark_type = PlainMarks
           /\ rows_count = rows
           /\ checksums = BuildChecksums(streams, cs, PlainMarks, unc_a)
           /\ storage = StorageLike(streams, cs, PlainMarks,
                                    MarkFile(PlainMarks, UniformMarks(PlainMarks, 1, 1), 0))

\* parts without checksums that differ in the mark files of their streams:
\* absent, or of 0, 1 or MaxMarks records.  At most two streams differ from
\* a file of one record, and at most one file is under a hashed name.
OneRecord(mt) == MarkFile(mt, UniformMarks(mt, 1, 1), 0)

StorageChoices(streams, mt) ==
    {ss \in [streams -> [present : BOOLEAN, hashed : BOOLEAN,
                         file : {MarkFile(mt, UniformMarks(mt, n, 1), 0) : n \in {0, 1, MaxMarks}}]] :
        /\ \A s \in streams : ~ss[s].present =>
              (~ss[s].hashed /\ ss[s].file = MarkFile(mt, <<>>, 0))
        /\ \A s1, s2 \in streams : (ss[s1].hashed /\ ss[s2].hashed) => s1 = s2
        /\ Cardinality({s \in streams : ~ss[s].present \/ ss[s].file # OneRecord(mt)}) <= 2}

InitMarkSizes ==
    \E cols \in ColumnLists, mt \in {PlainMarks, [adaptive |-> TRUE, compressed |-> FALSE]} :
      LET ser == DefaultKinds(cols)
          streams == UsedStreams(cols, ser)
      IN \E ss \in StorageChoices(streams, mt) :
            /\ columns = cols
            /\ serializations = ser
            /\ mark_type = mt
            /\ rows_count = 1
            /\ checksums = NoChecksums
            /\ storage = BuildStorage(streams, ss, mt)

\* the mark files a format can have: up to MaxMarks records (of 0, 1 or MaxRows
\* rows when adaptive), whole or cut after 8 bytes of the next record
RECURSIVE SeqsUpTo(_, _)
SeqsUpTo(S, n) ==
    IF n = 0
    THEN {<<>>}
    ELSE LET shorter == SeqsUpTo(S, n - 1)
         IN shorter \cup {Append(s, x) : s \in {t \in shorter : Len(t) = n - 1}, x \in S}

MarkFilesOf(mt) ==
    {MarkFile(mt, marks, tail) :
        marks \in SeqsUpTo(IF mt.adaptive THEN {0, 1, MaxRows} ELSE {0}, MaxMarks),
        tail \in {0, 8}}

\* parts of at most one column that differ in the content of their mark
\* files, in the name they are stored under and in the presence of the mark
\* file of one stream
InitMarkFiles ==
    \E cols \in ColumnListsUpTo(1), mt \in MarkTypes, rows \in {0, 1, MaxRows},
       hashed \in BOOLEAN, with_checksums \in BOOLEAN, all_present \in BOOLEAN :
      LET ser == DefaultKinds(cols)
          streams == UsedStreams(cols, ser)
          cs == AllRegistered(streams, hashed)
      IN \E file \in MarkFilesOf(mt) :
            /\ columns = cols
            /\ serializations = ser
            /\ mark_type = mt
            /\ rows_count = rows
            /\ checksums = IF with_checksums
                           THEN BuildChecksums(streams, cs, mt, rows * getSizeOfValueInMemory)
                           ELSE NoChecksums
            /\ storage = BuildStorage(streams,
                            [s \in streams |->
                                [present |-> all_present \/ s # StreamNamesOfKind(cols[1], "DEFAULT")[1],
                                 hashed |-> hashed, file |-> file]],
                            mt)

\* no query has been sent on any connection
NoBlock == [kind |-> "empty", id |-> 0]

NullOptBlock == [has_value |-> FALSE, value |-> NoBlock]

NoState ==
    [has_value |-> FALSE, io |-> "none", block |-> NullOptBlock, is_finished |-> FALSE,
     sent_totals |-> FALSE, sent_extremes |-> FALSE, sent_progress |-> FALSE,
     exception |-> FALSE, progress |-> 0]

NoQuery ==
    [number |-> 0, blocks |-> <<>>, pulled |-> 0, totals |-> FALSE, extremes |-> FALSE,
     raised |-> FALSE, finished |-> FALSE, increments |-> 0,
            waits |-> 0, cancelled |-> FALSE]

InitNoConnection ==
    /\ send_progress = FALSE
    /\ state = NoState
    /\ next_packet_type = "nullopt"
    /\ query = NoQuery
    /\ received = <<>>

Init ==
    /\ InitObject
    /\ InitNoConnection
    /\ \/ InitChecksums
       \/ InitRows
       \/ InitMarkSizes
       \/ InitMarkFiles

----------------------------------------------------------------------------
(* The calls *)

PartUnchanged ==
    /\ UNCHANGED <<columns, serializations, checksums, storage, mark_type, rows_count>>
    /\ UNCHANGED connection_vars

\* the call is not a step of the life of the part
LifeUnchanged == UNCHANGED <<phase, calls>>

\* IMergeTreeDataPart loads the index granularity once, when it loads the part
LoadIndexGranularity ==
    /\ pc = "constructed"
    /\ LET r == loadIndexGranularity
       IN /\ index_granularity' = r.granularity
          /\ pc' = IF r.status = "OK" THEN "loaded" ELSE "failed"
          /\ last' = [NotCalled EXCEPT !.op = "loadIndexGranularity",
                                       !.status = r.status, !.err_file = r.file]
    /\ PartUnchanged
    /\ LifeUnchanged

CheckConsistency ==
    \E require_part_metadata \in BOOLEAN :
        /\ LET r == checkConsistency(require_part_metadata)
           IN last' = [NotCalled EXCEPT !.op = "checkConsistency",
                                        !.require = require_part_metadata,
                                        !.status = r.status, !.err_column = r.column,
                                        !.err_file = r.file]
        /\ UNCHANGED <<index_granularity, pc>>
        /\ PartUnchanged
        /\ LifeUnchanged

HasColumnFiles ==
    \E column \in Range(columns) :
        /\ last' = [NotCalled EXCEPT !.op = "hasColumnFiles", !.column = column,
                                     !.result = hasColumnFiles(column)]
        /\ UNCHANGED <<index_granularity, pc>>
        /\ PartUnchanged
        /\ LifeUnchanged

CalculateEachColumnSizes ==
    \E debug \in BOOLEAN :
        /\ LET r == calculateEachColumnSizes(debug)
           IN last' = [NotCalled EXCEPT !.op = "calculateEachColumnSizes", !.debug = debug,
                                        !.status = r.status, !.err_column = r.err_column,
                                        !.each = r.each, !.total = r.total]
        /\ UNCHANGED <<index_granularity, pc>>
        /\ PartUnchanged
        /\ LifeUnchanged

Next ==
    \/ LoadIndexGranularity
    \/ CheckConsistency
    \/ HasColumnFiles
    \/ CalculateEachColumnSizes

Spec == Init /\ [][Next]_vars

----------------------------------------------------------------------------
(* The life of a part: open, then the callers of the ready part *)

\* the defect a part on storage may have when it is opened
Defects ==
    {"none", "no_mark_file", "cut_mark_file", "no_checksum_entry",
     "no_checksums", "empty_mark_file"}

\* the parts open is followed on: a part without columns, complete parts, and
\* parts with one defect: the mark file of the first stream is missing, the
\* mark files are cut in a record, the checksums lack the mark file of the
\* last stream, or the part has no checksums (its first stream is then stored
\* under the hashed name) and, of those, one with an empty mark file
InitOpenParts ==
    \E cols \in ColumnLists, mt \in {PlainMarks, [adaptive |-> TRUE, compressed |-> TRUE]},
       defect \in Defects :
      LET ser == DefaultKinds(cols)
          streams == UsedStreams(cols, ser)
          first_stream == IF cols = <<>> THEN "" ELSE StreamNamesOfKind(cols[1], "DEFAULT")[1]
          last_streams == IF cols = <<>> THEN <<"">>
                          ELSE StreamNamesOfKind(cols[Len(cols)], "DEFAULT")
          last_stream == last_streams[Len(last_streams)]
          with_checksums == defect \notin {"no_checksums", "empty_mark_file"}
          cs == [s \in streams |->
                    [hashed |-> FALSE, bin |-> TRUE,
                     mrk |-> ~(defect = "no_checksum_entry" /\ s = last_stream)]]
          whole == MarkFile(mt, UniformMarks(mt, MaxMarks, 1), 0)
          cut == MarkFile(mt, UniformMarks(mt, 1, 1), 8)
          empty == MarkFile(mt, <<>>, 0)
          ss == [s \in streams |->
                    [present |-> ~(defect = "no_mark_file" /\ s = first_stream),
                     hashed |-> ~with_checksums /\ s = first_stream,
                     file |-> IF defect = "cut_mark_file" THEN cut
                              ELSE IF defect = "empty_mark_file" /\ s = last_stream
                                      /\ s # first_stream
                                   THEN empty
                                   ELSE whole]]
      IN /\ columns = cols
         /\ serializations = ser
         /\ mark_type = mt
         /\ rows_count = 1
         /\ checksums = IF with_checksums
                        THEN BuildChecksums(streams, cs, mt, getSizeOfValueInMemory)
                        ELSE NoChecksums
         /\ storage = BuildStorage(streams, ss, mt)

OpenInit == InitObject /\ InitNoConnection /\ InitOpenParts

\* open, after the mark decoder: the consistency check, and the part is ready
\* when it passes
OpenCheckConsistency ==
    /\ pc = "loaded"
    /\ phase = "load"
    /\ \E require_part_metadata \in BOOLEAN :
          LET r == checkConsistency(require_part_metadata)
          IN /\ last' = [NotCalled EXCEPT !.op = "checkConsistency",
                                          !.require = require_part_metadata,
                                          !.status = r.status, !.err_column = r.column,
                                          !.err_file = r.file]
             /\ phase' = IF r.status = "OK" THEN "ready" ELSE "failed"
    /\ UNCHANGED <<index_granularity, pc, calls>>
    /\ PartUnchanged

\* getWriter: a writer of the part under construction
GetWriter ==
    /\ pc = "loaded"
    /\ phase = "load"
    /\ last' = [NotCalled EXCEPT !.op = "getWriter"]
    /\ UNCHANGED <<index_granularity, pc, phase, calls>>
    /\ PartUnchanged

\* getReader: a reader that holds the part (shared_from_this)
GetReader ==
    /\ phase = "ready"
    /\ last' = [NotCalled EXCEPT !.op = "getReader"]
    /\ UNCHANGED <<index_granularity, pc, phase, calls>>
    /\ PartUnchanged

ReadyHasColumnFiles == phase = "ready" /\ HasColumnFiles

\* a bug: the set of processed substreams is one set of the part, that the
\* calls in flight share
NewProcessedSubstreams_Shared ==
    UNION {calls[t].st.processed :
              t \in {c \in Callers : calls[c].op = "calculateEachColumnSizes"}}

\* "std::unordered_set<String> processed_substreams;": a set of the call
NewProcessedSubstreams == {}

\* calculateEachColumnSizes by a caller of the ready part, column by column
BeginCalculate(t) ==
    /\ phase = "ready"
    /\ calls[t] = Idle
    /\ \E debug \in BOOLEAN :
          calls' = [calls EXCEPT ![t] =
                       [op |-> "calculateEachColumnSizes", arg |-> debug, i |-> 1,
                        st |-> [status |-> "OK", err_column |-> "", each |-> NoSizes,
                                total |-> ZeroSize, processed |-> NewProcessedSubstreams]]]
    /\ UNCHANGED <<index_granularity, pc, last, phase>>
    /\ PartUnchanged

CalculateNextColumn(t) ==
    /\ calls[t].op = "calculateEachColumnSizes"
    /\ calls[t].i <= Len(columns)
    /\ calls[t].st.status = "OK"
    /\ calls' = [calls EXCEPT ![t].st = CalculateColumn(@, columns[calls[t].i], calls[t].arg),
                              ![t].i = @ + 1]
    /\ UNCHANGED <<index_granularity, pc, last, phase>>
    /\ PartUnchanged

ReturnFromCalculate(t) ==
    /\ calls[t].op = "calculateEachColumnSizes"
    /\ calls[t].i > Len(columns) \/ calls[t].st.status # "OK"
    /\ last' = [NotCalled EXCEPT !.op = "calculateEachColumnSizes", !.debug = calls[t].arg,
                                 !.status = calls[t].st.status,
                                 !.err_column = calls[t].st.err_column,
                                 !.each = calls[t].st.each, !.total = calls[t].st.total]
    /\ calls' = [calls EXCEPT ![t] = Idle]
    /\ UNCHANGED <<index_granularity, pc, phase>>
    /\ PartUnchanged

\* the streams of columns[i] from the j-th on, as CheckWalk visits them
RECURSIVE CheckColumn(_, _, _, _)
CheckColumn(i, j, st, with_checksums) ==
    IF st.res.status # "OK" \/ j > Len(StreamNames(columns[i]))
    THEN st
    ELSE CheckColumn(i, j + 1,
             IF with_checksums
             THEN [st EXCEPT !.res = CheckStreamChecksums(columns[i], StreamNames(columns[i])[j])]
             ELSE CheckStreamMarks(st, columns[i], StreamNames(columns[i])[j]),
             with_checksums)

\* checkConsistency by a caller of the ready part, column by column
BeginCheck(t) ==
    /\ phase = "ready"
    /\ calls[t] = Idle
    /\ \E require_part_metadata \in BOOLEAN :
          calls' = [calls EXCEPT ![t] =
                       [op |-> "checkConsistency", arg |-> require_part_metadata, i |-> 1,
                        st |-> [res |-> Passed, marks_size |-> -1]]]
    /\ UNCHANGED <<index_granularity, pc, last, phase>>
    /\ PartUnchanged

\* the loops of checkConsistency are entered
ChecksColumns(require_part_metadata) == checksumsEmpty \/ require_part_metadata

CheckNextColumn(t) ==
    /\ calls[t].op = "checkConsistency"
    /\ ChecksColumns(calls[t].arg)
    /\ calls[t].i <= Len(columns)
    /\ calls[t].st.res.status = "OK"
    /\ calls' = [calls EXCEPT ![t].st = CheckColumn(calls[t].i, 1, @, ~checksumsEmpty),
                              ![t].i = @ + 1]
    /\ UNCHANGED <<index_granularity, pc, last, phase>>
    /\ PartUnchanged

ReturnFromCheck(t) ==
    /\ calls[t].op = "checkConsistency"
    /\ \/ ~ChecksColumns(calls[t].arg)
       \/ calls[t].i > Len(columns)
       \/ calls[t].st.res.status # "OK"
    /\ last' = [NotCalled EXCEPT !.op = "checkConsistency", !.require = calls[t].arg,
                                 !.status = calls[t].st.res.status,
                                 !.err_column = calls[t].st.res.column,
                                 !.err_file = calls[t].st.res.file]
    /\ calls' = [calls EXCEPT ![t] = Idle]
    /\ UNCHANGED <<index_granularity, pc, phase>>
    /\ PartUnchanged

OpenNext ==
    \/ LoadIndexGranularity
    \/ OpenCheckConsistency
    \/ GetWriter
    \/ GetReader
    \/ ReadyHasColumnFiles
    \/ \E t \in Callers : BeginCalculate(t)
    \/ \E t \in Callers : CalculateNextColumn(t)
    \/ \E t \in Callers : ReturnFromCalculate(t)
    \/ \E t \in Callers : BeginCheck(t)
    \/ \E t \in Callers : CheckNextColumn(t)
    \/ \E t \in Callers : ReturnFromCheck(t)

OpenSpec == OpenInit /\ [][OpenNext]_vars

----------------------------------------------------------------------------
(* LocalConnection: a query, its source, poll and receivePacket *)

\* blocks the source of a query produces
MaxBlocks == 2
\* packets the client receives for one query
MaxPackets == 6
\* queries sent on the connection
MaxQueries == 2
\* progress increments of one query
MaxProgress == 1
\* times interactive_delay elapses during one query
MaxWaits == 1

Block(kind, id) == [kind |-> kind, id |-> id]

\* the header of a query: columns, no rows
Header == Block("header", 0)

\* Block::operator bool: the block has columns
IsBlock(b) == b.kind # "empty"

SomeBlock(b) == [has_value |-> TRUE, value |-> b]

\* "state.emplace()": a LocalQueryState with the defaults of its members
NewQueryState == [NoState EXCEPT !.has_value = TRUE]

\* what executeQuery gives: an input stream ("in", read through async_in), a
\* pipeline (read through executor), an output stream ("out") or none of them
IoKinds == {"in", "pipeline", "out", "none"}

HasHeader(io) == io \in {"in", "pipeline", "out"}

\* the connection as the operators below pass it on
Connection == [state |-> state, next_packet_type |-> next_packet_type, query |-> query]

\* the packet type of the last query is left pending
sendQuery_KeepsPacketType(io, thrown) ==
    LET fresh == NewQueryState
    IN IF thrown = "executeQuery"
       THEN [state |-> [fresh EXCEPT !.exception = TRUE], next_packet_type |-> next_packet_type]
       ELSE LET st == [fresh EXCEPT !.io = io,
                                    !.block = IF HasHeader(io) THEN SomeBlock(Header)
                                              ELSE NullOptBlock]
            IN IF thrown = "prefix"
               THEN [state |-> [st EXCEPT !.exception = TRUE],
                     next_packet_type |-> next_packet_type]
               ELSE [state |-> st,
                     next_packet_type |-> IF st.block.has_value THEN "Data"
                                          ELSE next_packet_type]

\* sendQuery, after the query context is made; thrown is "no", "executeQuery"
\* (executeQuery throws) or "prefix" (writePrefix or readPrefix throws, after
\* the header has been put into state->block)
sendQuery(io, thrown) ==
    LET fresh == NewQueryState
    IN IF thrown = "executeQuery"
       THEN [state |-> [fresh EXCEPT !.exception = TRUE], next_packet_type |-> "nullopt"]
       ELSE LET st == [fresh EXCEPT !.io = io,
                                    !.block = IF HasHeader(io) THEN SomeBlock(Header)
                                              ELSE NullOptBlock]
            IN IF thrown = "prefix"
               THEN [state |-> [st EXCEPT !.exception = TRUE], next_packet_type |-> "nullopt"]
               ELSE [state |-> st,
                     next_packet_type |-> IF st.block.has_value THEN "Data" ELSE "nullopt"]

\* the source has produced all its blocks
Exhausted(q) == q.pulled >= Len(q.blocks)

\* interactive_delay has elapsed once more
Waited(q, waited) == IF waited THEN [q EXCEPT !.waits = @ + 1] ELSE q

\* pullBlock: ready says that the source has its next block, or the end of
\* the stream, within interactive_delay.  [block, next_read, query]
pullBlock(c, ready) ==
    IF c.state.io = "in"
    THEN \* async_in: "if (poll(...)) block = read(); if (block) return true;"
         IF ready /\ ~Exhausted(c.query)
         THEN [block |-> c.query.blocks[c.query.pulled + 1], next_read |-> TRUE,
               query |-> [c.query EXCEPT !.pulled = @ + 1]]
         ELSE [block |-> NoBlock, next_read |-> FALSE, query |-> Waited(c.query, ~ready)]
    ELSE IF c.state.io = "pipeline"
         THEN \* executor->pull: false when the pipeline has finished
              IF ready /\ ~Exhausted(c.query)
              THEN [block |-> c.query.blocks[c.query.pulled + 1], next_read |-> TRUE,
                    query |-> [c.query EXCEPT !.pulled = @ + 1]]
              ELSE [block |-> NoBlock, next_read |-> ~(ready /\ Exhausted(c.query)),
                    query |-> Waited(c.query, ~ready)]
         ELSE [block |-> NoBlock, next_read |-> FALSE, query |-> c.query]

pollImpl(c, ready) ==
    LET r == pullBlock(c, ready)
    IN IF IsBlock(r.block)
       THEN [c EXCEPT !.state.block = SomeBlock(r.block), !.query = r.query]
       ELSE IF ~r.next_read
            THEN [c EXCEPT !.state.is_finished = TRUE, !.query = r.query]
            ELSE [c EXCEPT !.query = r.query]

\* "try { pollImpl(); } catch ...": throws says that the source throws
pollImplCaught(c, ready, throws) ==
    IF throws /\ c.state.io \in {"in", "pipeline"}
    THEN [c EXCEPT !.state.exception = TRUE, !.query.raised = TRUE]
    ELSE pollImpl(c, ready)

\* finishQuery, called with a state
finishQuery(c) ==
    [c EXCEPT !.next_packet_type = "EndOfStream",
              !.state = NoState,
              !.query.finished = TRUE]

\* getTotals / getTotalsBlock and getExtremes / getExtremesBlock
TotalsBlock(c) ==
    IF c.state.io \in {"in", "pipeline"} /\ c.query.totals THEN Block("totals", 0) ELSE NoBlock

ExtremesBlock(c) ==
    IF c.state.io \in {"in", "pipeline"} /\ c.query.extremes THEN Block("extremes", 0) ELSE NoBlock

\* poll, from its last statement back to its first.  [c, result]
PollData(c) ==
    IF c.state.block.has_value /\ IsBlock(c.state.block.value)
    THEN [c |-> [c EXCEPT !.next_packet_type = "Data"], result |-> TRUE]
    ELSE [c |-> c, result |-> FALSE]

\* a finished query is left as it is
PollFinish_Never(c) == PollData(c)

PollFinish(c) ==
    IF c.state.is_finished
    THEN [c |-> finishQuery(c), result |-> TRUE]
    ELSE PollData(c)

PollLastProgress(c) ==
    IF c.state.is_finished /\ send_progress /\ ~c.state.sent_progress
    THEN [c |-> [c EXCEPT !.state.sent_progress = TRUE, !.next_packet_type = "Progress"],
          result |-> TRUE]
    ELSE PollFinish(c)

PollExtremes(c) ==
    IF c.state.is_finished /\ ~c.state.sent_extremes
    THEN LET c2 == [c EXCEPT !.state.sent_extremes = TRUE]
         IN IF IsBlock(ExtremesBlock(c2))
            THEN [c |-> [c2 EXCEPT !.next_packet_type = "Extremes",
                                   !.state.block = SomeBlock(ExtremesBlock(c2))],
                  result |-> TRUE]
            ELSE PollLastProgress(c2)
    ELSE PollLastProgress(c)

\* the totals are sent and not marked as sent
PollTotals_NotMarked(c) ==
    IF c.state.is_finished /\ ~c.state.sent_totals
    THEN IF IsBlock(TotalsBlock(c))
         THEN [c |-> [c EXCEPT !.next_packet_type = "Totals",
                               !.state.block = SomeBlock(TotalsBlock(c))],
               result |-> TRUE]
         ELSE PollExtremes(c)
    ELSE PollExtremes(c)

PollTotals(c) ==
    IF c.state.is_finished /\ ~c.state.sent_totals
    THEN LET c2 == [c EXCEPT !.state.sent_totals = TRUE]
         IN IF IsBlock(TotalsBlock(c2))
            THEN [c |-> [c2 EXCEPT !.next_packet_type = "Totals",
                                   !.state.block = SomeBlock(TotalsBlock(c2))],
                  result |-> TRUE]
            ELSE PollExtremes(c2)
    ELSE PollExtremes(c)

\* the exception is looked at only while the query is not finished
poll_ExceptionUntilFinished(c, elapsed, ready, throws) ==
    IF ~c.state.has_value
    THEN [c |-> c, result |-> FALSE]
    ELSE IF c.next_packet_type # "nullopt"
         THEN [c |-> c, result |-> TRUE]
         ELSE IF send_progress /\ elapsed
              THEN [c |-> [c EXCEPT !.next_packet_type = "Progress",
                                    !.query = Waited(@, TRUE)],
                    result |-> TRUE]
              ELSE LET c1 == IF ~c.state.is_finished
                             THEN pollImplCaught(c, ready, throws)
                             ELSE c
                   IN IF c1.state.exception /\ ~c1.state.is_finished
                      THEN [c |-> [c1 EXCEPT !.next_packet_type = "Exception"],
                            result |-> TRUE]
                      ELSE PollTotals(c1)

\* elapsed: after_send_progress has reached interactive_delay
poll(c, elapsed, ready, throws) ==
    IF ~c.state.has_value
    THEN [c |-> c, result |-> FALSE]
    ELSE IF c.next_packet_type # "nullopt"
         THEN [c |-> c, result |-> TRUE]
         ELSE IF send_progress /\ elapsed
              THEN [c |-> [c EXCEPT !.next_packet_type = "Progress",
                                    !.query = Waited(@, TRUE)],
                    result |-> TRUE]
              ELSE LET c1 == IF ~c.state.is_finished
                             THEN pollImplCaught(c, ready, throws)
                             ELSE c
                   IN IF c1.state.exception
                      THEN [c |-> [c1 EXCEPT !.next_packet_type = "Exception"],
                            result |-> TRUE]
                      ELSE PollTotals(c1)

EndOfStreamPacket == [type |-> "EndOfStream", block |-> NoBlock, progress |-> 0]

\* the switch of receivePacket and the reset of next_packet_type.  The case
\* Progress copies state->progress and then resets it, while the thread that
\* executes the query may call updateProgress: racing is the number of
\* increments it adds between the copy and the reset.
TakePacket(c, racing) ==
    LET type == c.next_packet_type
    IN IF type \in {"Totals", "Extremes", "Data"}
       THEN IF c.state.block.has_value /\ IsBlock(c.state.block.value)
            THEN [c |-> [c EXCEPT !.state.block = NullOptBlock, !.next_packet_type = "nullopt"],
                  packet |-> [type |-> type, block |-> c.state.block.value, progress |-> 0]]
            ELSE [c |-> [c EXCEPT !.next_packet_type = "nullopt"],
                  packet |-> [type |-> type, block |-> NoBlock, progress |-> 0]]
       ELSE IF type = "Progress"
            THEN [c |-> [c EXCEPT !.state.progress = 0, !.next_packet_type = "nullopt",
                                  !.query.increments = @ + racing],
                  packet |-> [type |-> type, block |-> NoBlock, progress |-> c.state.progress]]
            ELSE [c |-> [c EXCEPT !.next_packet_type = "nullopt"],
                  packet |-> [type |-> type, block |-> NoBlock, progress |-> 0]]

\* [c, packet]
receivePacket(c, elapsed, ready, throws, racing) ==
    IF ~c.state.has_value
    THEN [c |-> c, packet |-> EndOfStreamPacket]
    ELSE LET c1 == IF c.next_packet_type = "nullopt"
                   THEN poll(c, elapsed, ready, throws).c
                   ELSE c
         IN IF c1.next_packet_type = "nullopt"
            THEN [c |-> c1, packet |-> EndOfStreamPacket]
            ELSE TakePacket(c1, racing)

\* the connection of a client: a part plays no role
InitConnection ==
    /\ send_progress \in BOOLEAN
    /\ state = NoState
    /\ next_packet_type = "nullopt"
    /\ query = NoQuery
    /\ received = <<>>
    /\ columns = <<>>
    /\ serializations = DefaultKinds(<<>>)
    /\ checksums = NoChecksums
    /\ storage = BuildStorage({}, DefaultKinds(<<>>), PlainMarks)
    /\ mark_type = PlainMarks
    /\ rows_count = 0

ConnectionInit == InitObject /\ InitConnection

NoPartCall ==
    UNCHANGED <<columns, serializations, checksums, storage, mark_type, rows_count,
                index_granularity, pc, last, phase, calls>>

\* the queries a client sends
Queries ==
    {q \in [io : IoKinds, n : 0..MaxBlocks, totals : BOOLEAN, extremes : BOOLEAN,
            thrown : {"no", "executeQuery", "prefix"}] :
        /\ q.io \notin {"in", "pipeline"} => (q.n = 0 /\ ~q.totals /\ ~q.extremes)
        /\ q.thrown = "prefix" => (q.io \in {"in", "out"} /\ ~q.totals /\ ~q.extremes)
        /\ q.thrown = "executeQuery" => (q.io = "none" /\ q.n = 0 /\ ~q.totals /\ ~q.extremes)}

SendQuery ==
    /\ query.number < MaxQueries
    /\ \E q \in Queries :
          LET r == sendQuery(q.io, q.thrown)
          IN /\ state' = r.state
             /\ next_packet_type' = r.next_packet_type
             /\ query' = [number |-> query.number + 1,
                          blocks |-> [i \in 1..q.n |-> Block("data", i)],
                          pulled |-> 0, totals |-> q.totals, extremes |-> q.extremes,
                          raised |-> q.thrown # "no",
                          finished |-> FALSE, increments |-> 0,
                          waits |-> 0, cancelled |-> FALSE]
    /\ received' = <<>>
    /\ UNCHANGED send_progress
    /\ NoPartCall

\* sendCancel: the source produces nothing more
SendCancel ==
    /\ state.has_value
    /\ state.io \in {"in", "pipeline"}
    /\ query' = [query EXCEPT !.blocks = SubSeq(@, 1, query.pulled), !.cancelled = TRUE]
    /\ UNCHANGED <<send_progress, state, next_packet_type, received>>
    /\ NoPartCall

\* updateProgress, the progress callback of the query context
UpdateProgress ==
    /\ send_progress
    /\ state.has_value
    /\ query.increments < MaxProgress
    /\ state' = [state EXCEPT !.progress = @ + 1]
    /\ query' = [query EXCEPT !.increments = @ + 1]
    /\ UNCHANGED <<send_progress, next_packet_type, received>>
    /\ NoPartCall

\* the increments updateProgress can add during one call of receivePacket
Racing == IF send_progress THEN 0..(MaxProgress - query.increments) ELSE {0}

\* interactive_delay elapses MaxWaits times at most during a query
TimeAllows(elapsed, ready) == (elapsed \/ ~ready) => query.waits < MaxWaits

Poll ==
    /\ \E elapsed \in BOOLEAN, ready \in BOOLEAN, throws \in BOOLEAN :
          /\ TimeAllows(elapsed, ready)
          /\ LET r == poll(Connection, elapsed, ready, throws)
             IN /\ state' = r.c.state
                /\ next_packet_type' = r.c.next_packet_type
                /\ query' = r.c.query
    /\ UNCHANGED <<send_progress, received>>
    /\ NoPartCall

ReceivePacket ==
    /\ Len(received) < MaxPackets
    /\ \E elapsed \in BOOLEAN, ready \in BOOLEAN, throws \in BOOLEAN, racing \in Racing :
          /\ TimeAllows(elapsed, ready)
          /\ LET r == receivePacket(Connection, elapsed, ready, throws, racing)
             IN /\ state' = r.c.state
                /\ next_packet_type' = r.c.next_packet_type
                /\ query' = r.c.query
                /\ received' = Append(received, r.packet)
    /\ UNCHANGED send_progress
    /\ NoPartCall

ConnectionNext ==
    \/ SendQuery
    \/ SendCancel
    \/ UpdateProgress
    \/ Poll
    \/ ReceivePacket

ConnectionSpec == ConnectionInit /\ [][ConnectionNext]_vars

----------------------------------------------------------------------------
(* A client that keeps calling receivePacket *)

\* receivePacket with no end to the calls: received holds the last packet only
ReceiveLastPacket ==
    /\ \E elapsed \in BOOLEAN, ready \in BOOLEAN, throws \in BOOLEAN, racing \in Racing :
          /\ TimeAllows(elapsed, ready)
          /\ LET r == receivePacket(Connection, elapsed, ready, throws, racing)
             IN /\ state' = r.c.state
                /\ next_packet_type' = r.c.next_packet_type
                /\ query' = r.c.query
                /\ received' = <<r.packet>>
    /\ UNCHANGED send_progress
    /\ NoPartCall

\* the client sends a query when it has received the end of the last one: an
\* EndOfStream or an Exception packet
SendNextQuery ==
    /\ \/ query.number = 0
       \/ /\ received # <<>>
          /\ received[Len(received)].type \in {"EndOfStream", "Exception"}
    /\ SendQuery

ConnectionLiveNext ==
    \/ SendNextQuery
    \/ SendCancel
    \/ UpdateProgress
    \/ Poll
    \/ ReceiveLastPacket

\* the client calls receivePacket again and again; interactive_delay elapses
\* MaxWaits times at most during a query (TimeAllows), so the timer does not
\* fire for ever and the source is ready in the end
ConnectionLiveSpec ==
    ConnectionInit /\ [][ConnectionLiveNext]_vars /\ WF_vars(ReceiveLastPacket)

----------------------------------------------------------------------------
(* What the claims speak of *)

\* the resolved names of the streams of a column, and of the columns before
\* position i of the part
ResolvedStreams(column) == {getFileNameOrHash(s) : s \in Range(StreamNames(column))}

ResolvedBefore(i) == UNION {ResolvedStreams(columns[k]) : k \in 1..(i - 1)}

AllResolvedStreams == ResolvedBefore(Len(columns) + 1)

PositionOf(column) == CHOOSE i \in DOMAIN columns : columns[i] = column

\* the sizes the checksum entries of the data and mark file of a name give
EntrySizes(stream_name) ==
    LET bin == stream_name \o DATA_FILE_EXTENSION
        mrk == stream_name \o getFileExtensionOf(mark_type)
        files == checksums.files
    IN [data_compressed |-> IF bin \in DOMAIN files THEN files[bin].file_size ELSE 0,
        data_uncompressed |-> IF bin \in DOMAIN files THEN files[bin].uncompressed_size ELSE 0,
        marks |-> IF mrk \in DOMAIN files THEN files[mrk].file_size ELSE 0]

RECURSIVE SumOfEntries(_)
SumOfEntries(names) ==
    IF names = {}
    THEN ZeroSize
    ELSE LET n == CHOOSE x \in names : TRUE
         IN SizeAdd(EntrySizes(n), SumOfEntries(names \ {n}))

CalculationDone == last.op = "calculateEachColumnSizes" /\ last.status = "OK"

\* both checksum entries of the resolved name of a stream are registered
HasBothEntries(full_stream_name) ==
    LET stream_name == getFileNameOrHash(full_stream_name)
    IN /\ (stream_name \o DATA_FILE_EXTENSION) \in DOMAIN checksums.files
       /\ (stream_name \o getFileExtensionOf(mark_type)) \in DOMAIN checksums.files

----------------------------------------------------------------------------
(* C1: when calculateEachColumnSizes has gone through all columns of a part   *)
(* with checksums, the total is the sum of the data and mark checksum sizes   *)
(* over the distinct resolved stream names: a stream that several columns     *)
(* enumerate is counted once, in whatever order the columns are.              *)
C1_TotalCountsEachStreamOnce ==
    (CalculationDone /\ ~checksumsEmpty) => last.total = SumOfEntries(AllResolvedStreams)

\* two columns that share a registered stream have been summed
C1_Witness ==
    /\ CalculationDone
    /\ {"n.x", "n.y"} \subseteq Range(columns)
    /\ "n.size0.bin" \in DOMAIN checksums.files
    /\ last.total = SumOfEntries(AllResolvedStreams)

(* C2, as claimed: every column's own size in each_columns_size reports the   *)
(* bytes of every stream the column enumerates, shared or not.                *)
C2_EachColumnReportsAllItsStreams ==
    (last.op = "calculateEachColumnSizes" /\ ~checksumsEmpty) =>
        \A c \in DOMAIN last.each : last.each[c] = SumOfEntries(ResolvedStreams(c))

(* C2, amended: a column's own size in each_columns_size reports the bytes of *)
(* the streams it enumerates that no column before it in the pass enumerates; *)
(* a shared stream is reported for the first column that has it only.         *)
C2_EachColumnReportsItsNewStreams ==
    (last.op = "calculateEachColumnSizes" /\ ~checksumsEmpty) =>
        \A c \in DOMAIN last.each :
            last.each[c] = SumOfEntries(ResolvedStreams(c) \ ResolvedBefore(PositionOf(c)))

\* the second of two columns that share a registered stream does not report it
C2_Witness ==
    /\ CalculationDone
    /\ Len(columns) = 2
    /\ {"n.x", "n.y"} = Range(columns)
    /\ "n.size0.bin" \in DOMAIN checksums.files
    /\ last.each[columns[2]].data_compressed
          < SumOfEntries(ResolvedStreams(columns[2])).data_compressed

(* C3, as claimed: hasColumnFiles(column) is true exactly when the checksums  *)
(* have the data file and the mark file of every stream of the column, under  *)
(* the name the stream is stored under, literal or hashed.                    *)
C3_HasColumnFilesIffAllEntries ==
    last.op = "hasColumnFiles" =>
        (last.result <=>
            \A s \in Range(StreamNames(last.column)) : HasBothEntries(s))

\* the expected checksum files of the streams of a column
ExpectedFiles(column) ==
    UNION {{getFileNameOrHash(s) \o getFileExtensionOf(mark_type),
            getFileNameOrHash(s) \o DATA_FILE_EXTENSION} : s \in Range(StreamNames(column))}

FullMetadataCheck ==
    last.op = "checkConsistency" /\ last.require /\ ~checksumsEmpty

(* C4: with checksums and require_part_metadata, checkConsistency passes      *)
(* exactly when every stream of every column has its data file and its mark   *)
(* file in the checksums; otherwise it throws NO_FILE_IN_DATA_PART, naming a  *)
(* column of the part and an expected file of that column that the checksums  *)
(* lack.                                                                      *)
C4_FullMetadataCheck ==
    FullMetadataCheck =>
        /\ last.status = "OK" <=>
              \A c \in Range(columns) : \A s \in Range(StreamNames(c)) : HasBothEntries(s)
        /\ last.status # "OK" =>
              /\ last.status = "NO_FILE_IN_DATA_PART"
              /\ last.err_column \in Range(columns)
              /\ last.err_file \in ExpectedFiles(last.err_column)
              /\ last.err_file \notin DOMAIN checksums.files

\* the check has thrown for a stream whose mark file is registered and whose
\* data file is not
C4_Witness ==
    /\ FullMetadataCheck
    /\ last.status = "NO_FILE_IN_DATA_PART"
    /\ \E s \in Range(StreamNames(last.err_column)) :
          /\ last.err_file = getFileNameOrHash(s) \o DATA_FILE_EXTENSION
          /\ (getFileNameOrHash(s) \o getFileExtensionOf(mark_type)) \in DOMAIN checksums.files

\* the mark files on storage of the streams of the part, under the literal or
\* the hashed name of the stream
MarkFilesOfPart ==
    {f \in DOMAIN storage :
        \E c \in Range(columns) : \E s \in Range(StreamNames(c)) :
            f \in {s \o getFileExtensionOf(mark_type),
                   sipHash128String(s) \o getFileExtensionOf(mark_type)}}

(* C5, as claimed: without checksums, checkConsistency passes exactly when    *)
(* every mark file that exists on storage for a stream of the part has a      *)
(* size other than zero and all of them have the same size; otherwise it      *)
(* throws BAD_SIZE_OF_FILE_IN_DATA_PART.                                      *)
C5_MarkSizesCheck ==
    (last.op = "checkConsistency" /\ checksumsEmpty) =>
        /\ last.status = "OK" <=>
              /\ \A f \in MarkFilesOfPart : storage[f].size # 0
              /\ \A f, g \in MarkFilesOfPart : storage[f].size = storage[g].size
        /\ last.status # "OK" => last.status = "BAD_SIZE_OF_FILE_IN_DATA_PART"

\* the columns the row count check of the claim is about, whatever the row count
FixedWidthDefaultColumn(column) ==
    /\ isValueRepresentedByNumber(column)
    /\ ~haveSubtypes(column)
    /\ serializations[column] = "DEFAULT"

RowsInColumn(column) == last.each[column].data_uncompressed \div getSizeOfValueInMemory

DebugCalculation == last.op = "calculateEachColumnSizes" /\ last.debug

(* C6, as claimed: in a debug build, whenever uncompressed bytes / value      *)
(* width of a fixed-width column without subtypes and with the default        *)
(* serialization differs from the row count of the part, the calculation      *)
(* throws LOGICAL_ERROR for that column, for every row count.                 *)
C6_MismatchThrowsForEveryRowCount ==
    DebugCalculation =>
        \A c \in DOMAIN last.each :
            (FixedWidthDefaultColumn(c) /\ RowsInColumn(c) # rows_count) =>
                (last.status = "LOGICAL_ERROR" /\ last.err_column = c)

(* C6, amended: in a debug build and for a row count other than zero, the     *)
(* calculation throws LOGICAL_ERROR, naming the column, exactly when          *)
(* uncompressed bytes / value width of a fixed-width column without subtypes  *)
(* and with the default serialization differs from the row count; when the    *)
(* row count is zero the check is skipped and nothing is thrown.              *)
C6_MismatchThrowsForNonZeroRowCount ==
    DebugCalculation =>
        /\ \A c \in DOMAIN last.each :
              (rows_count # 0 /\ FixedWidthDefaultColumn(c) /\ RowsInColumn(c) # rows_count)
                 <=> (last.status = "LOGICAL_ERROR" /\ last.err_column = c)
        /\ last.status \in {"OK", "LOGICAL_ERROR"}
        /\ rows_count = 0 => last.status = "OK"

\* a debug build has thrown for a column whose bytes give one row less than
\* the part has
C6_Witness ==
    /\ DebugCalculation
    /\ last.status = "LOGICAL_ERROR"
    /\ rows_count = MaxRows
    /\ RowsInColumn(last.err_column) = rows_count - 1

\* the mark file loadIndexGranularity decodes: that of the resolved name of
\* the first stream of the first column
LoadedMarksPath == getMarksFilePath(getFileNameForColumn(columns[1]))

FixedTable(n) == [i \in 1..n |-> fixed_index_granularity]

NothingDecoded == index_granularity = [marks |-> <<>>, initialized |-> FALSE]

(* C7: for a mark format that is neither adaptive nor compressed, the loaded  *)
(* table has (size of the mark file) / 16 marks, every one of the fixed       *)
(* granularity; the last one is not adjusted to the row count of the part.    *)
C7_FixedFormatTableFromSize ==
    (pc = "loaded" /\ ~mark_type.adaptive /\ ~mark_type.compressed) =>
        /\ index_granularity.initialized
        /\ index_granularity.marks =
              FixedTable(storage[LoadedMarksPath].size \div MarkSizeNonAdaptive)

\* MaxMarks marks of the fixed granularity have been loaded into a part that
\* has fewer rows than they give
C7_Witness ==
    /\ pc = "loaded" /\ ~mark_type.adaptive /\ ~mark_type.compressed
    /\ Len(index_granularity.marks) = MaxMarks
    /\ SeqSum(index_granularity.marks) > rows_count

(* C8: for an adaptive or a compressed mark format, a load that succeeds has  *)
(* read the records of the file up to its end: an adaptive table is the       *)
(* sequence of the granularities of the records, in file order, and the       *)
(* table of a compressed non-adaptive format has one mark of the fixed        *)
(* granularity per record, whatever the size of the file.                     *)
C8_TableFromRecords ==
    (pc = "loaded" /\ (mark_type.adaptive \/ mark_type.compressed)) =>
        /\ index_granularity.initialized
        /\ index_granularity.marks =
              IF mark_type.adaptive
              THEN storage[LoadedMarksPath].marks
              ELSE FixedTable(Len(storage[LoadedMarksPath].marks))

\* an adaptive table of MaxMarks different granularities has been loaded
C8_Witness ==
    /\ pc = "loaded" /\ mark_type.adaptive
    /\ Len(index_granularity.marks) = MaxMarks
    /\ index_granularity.marks[1] > index_granularity.marks[MaxMarks]

\* a compressed non-adaptive table has been loaded whose number of marks is
\* not the size of the file divided by the size of a record
C8_WitnessCompressed ==
    /\ pc = "loaded" /\ ~mark_type.adaptive /\ mark_type.compressed
    /\ Len(index_granularity.marks) = MaxMarks
    /\ storage[LoadedMarksPath].size \div MarkSizeNonAdaptive # MaxMarks

(* C9, as claimed: for an adaptive mark format, once the table is initialized *)
(* the sum of its granularities is the row count of the part.                 *)
C9_AdaptiveSumIsRowsCount ==
    (mark_type.adaptive /\ index_granularity.initialized) =>
        SeqSum(index_granularity.marks) = rows_count

(* C9, amended: for an adaptive mark format, once the table is initialized    *)
(* the sum of its granularities is the sum of the granularities of the        *)
(* records of the decoded mark file; the decoder does not compare it with the *)
(* row count of the part, which it equals only when the file was written so.  *)
C9_AdaptiveSumIsSumOfRecords ==
    (mark_type.adaptive /\ index_granularity.initialized) =>
        SeqSum(index_granularity.marks) = SeqSum(storage[LoadedMarksPath].marks)

\* an adaptive table is initialized whose rows are not the rows of the part
C9_Witness ==
    /\ mark_type.adaptive /\ index_granularity.initialized
    /\ Len(index_granularity.marks) = MaxMarks
    /\ SeqSum(index_granularity.marks) # rows_count

(* C10: when the part has a column and the mark file of the resolved name of  *)
(* the first stream of the first column is not on storage, loadIndexGranularity *)
(* throws NO_FILE_IN_DATA_PART for that file and decodes nothing, whatever    *)
(* the mark format.                                                           *)
C10_MissingMarksFileThrows ==
    (pc # "constructed" /\ columns # <<>> /\ LoadedMarksPath \notin DOMAIN storage) =>
        /\ pc = "failed"
        /\ NothingDecoded
        /\ last.op = "loadIndexGranularity" =>
              (last.status = "NO_FILE_IN_DATA_PART" /\ last.err_file = LoadedMarksPath)

\* the load of a part with a compressed adaptive format has thrown for the
\* missing mark file of a stream stored under its hashed name
C10_Witness ==
    /\ last.op = "loadIndexGranularity" /\ last.status = "NO_FILE_IN_DATA_PART"
    /\ columns # <<>>
    /\ mark_type.adaptive /\ mark_type.compressed
    /\ last.err_file = sipHash128String(StreamNames(columns[1])[1]) \o ".cmrk2"
    /\ LoadedMarksPath \notin DOMAIN storage

----------------------------------------------------------------------------
(* The life of a part *)

\* what makes the mark decoder of open throw: no column, no mark file for the
\* first stream of the first column, or a mark file that is read and ends in
\* a cut record
DecoderFailureCause ==
    \/ columns = <<>>
    \/ /\ columns # <<>>
       /\ \/ LoadedMarksPath \notin DOMAIN storage
          \/ /\ LoadedMarksPath \in DOMAIN storage
             /\ mark_type.adaptive \/ mark_type.compressed
             /\ storage[LoadedMarksPath].tail # 0

OpenFailed == pc = "failed" \/ phase = "failed"

NoCallInFlight == \A t \in Callers : calls[t] = Idle

(* C11, as claimed: when a step of open fails (no columns, mark file missing, *)
(* read error in the mark stream, consistency violation), the table is not    *)
(* marked initialized by that open and the part is not ready.                 *)
C11_FailedOpenLeavesTableUninitialized ==
    OpenFailed => (~index_granularity.initialized /\ phase # "ready")

(* C11, amended: open fails in the mark decoder exactly when the part has no  *)
(* column, the mark file is missing or a read ends in a cut record; the error *)
(* is then the last thing that happened, the table is not marked initialized  *)
(* and nothing is retried or called.  When the consistency check of open      *)
(* throws, the table has already been marked initialized by the decoder that  *)
(* ran before it.  In both cases the part does not become ready: a ready part *)
(* has a decoded table and has passed the check.                              *)
C11_FailedOpenNeverReady ==
    /\ pc # "constructed" => (pc = "failed" <=> DecoderFailureCause)
    /\ pc = "failed" =>
          /\ ~index_granularity.initialized
          /\ phase = "load" /\ NoCallInFlight
          /\ last.op = "loadIndexGranularity"
          /\ last.status \in {"NO_FILE_IN_DATA_PART", "CANNOT_READ_ALL_DATA"}
    /\ phase = "failed" =>
          /\ pc = "loaded" /\ index_granularity.initialized
          /\ NoCallInFlight
          /\ last.op = "checkConsistency"
          /\ last.status \in {"NO_FILE_IN_DATA_PART", "BAD_SIZE_OF_FILE_IN_DATA_PART"}
          /\ checkConsistency(last.require).status = last.status
    /\ phase = "ready" =>
          /\ pc = "loaded" /\ index_granularity.initialized
          /\ \E require_part_metadata \in BOOLEAN :
                checkConsistency(require_part_metadata) = Passed

\* open has failed in the middle of a mark stream: a mark has been appended
\* and the table is not initialized
C11_Witness ==
    /\ pc = "failed" /\ phase = "load"
    /\ last.status = "CANNOT_READ_ALL_DATA"
    /\ Len(index_granularity.marks) = 1
    /\ ~index_granularity.initialized

\* a step of checkConsistency, getReader or getWriter
UsesGranularityTable ==
    \/ OpenCheckConsistency
    \/ GetWriter
    \/ GetReader
    \/ \E t \in Callers : BeginCheck(t) \/ CheckNextColumn(t) \/ ReturnFromCheck(t)

PartState ==
    <<columns, serializations, checksums, storage, mark_type, rows_count, index_granularity>>

\* what the last call returned is what the same call returns when it is
\* the only one
ReturnsAsAlone ==
    /\ last.op = "calculateEachColumnSizes" =>
          LET r == calculateEachColumnSizes(last.debug)
          IN /\ last.status = r.status
             /\ last.err_column = r.err_column
             /\ last.each = r.each
             /\ last.total = r.total
    /\ last.op = "checkConsistency" =>
          LET r == checkConsistency(last.require)
          IN /\ last.status = r.status
             /\ last.err_column = r.column
             /\ last.err_file = r.file
    /\ last.op = "hasColumnFiles" => last.result = hasColumnFiles(last.column)

(* C13: once the part is ready, no step of the callers, however their calls   *)
(* of getReader, hasColumnFiles, calculateEachColumnSizes and checkConsistency *)
(* interleave, changes the columns, the checksums, the index granularity, the *)
(* mark type or the row count, and every call returns what it returns when it *)
(* runs alone.                                                                *)
C13_ReadyPartIsImmutable ==
    /\ [](phase = "ready" => ReturnsAsAlone)
    /\ [][phase = "ready" => (phase' = "ready" /\ PartState' = PartState)]_vars

\* a size calculation has returned the sizes of two columns that share a
\* stream while the other caller is in the middle of its own calculation
C13_Witness ==
    /\ phase = "ready"
    /\ last.op = "calculateEachColumnSizes" /\ last.status = "OK"
    /\ {"n.x", "n.y"} = Range(columns)
    /\ ~checksumsEmpty
    /\ \E t \in Callers :
          /\ calls[t].op = "calculateEachColumnSizes"
          /\ calls[t].i = 2

----------------------------------------------------------------------------
(* File names *)

\* the names of the mark file of a stream that the components of the part
\* use.  With checksums: the mark decoder (getFileNameForColumn, then
\* getMarksFilePath), the size calculation, the check with checksums and
\* hasColumnFiles.  Without checksums the size calculation returns before it
\* names a file and the check looks at the storage: the names compared are
\* that of hasColumnFiles and that of the check.
MarkFileNamesUsed(full_stream_name) ==
    {HasColumnFilesStreamName(full_stream_name) \o getFileExtensionOf(mark_type)}
    \cup (IF checksumsEmpty
          THEN {MarksPathWithoutChecksums(full_stream_name)}
          ELSE {getMarksFilePath(getFileNameOrHash(full_stream_name)),
                getFileNameOrHash(full_stream_name) \o getMarksFileExtension,
                getFileNameOrHash(full_stream_name) \o getFileExtensionOf(mark_type)})

\* the stream is stored, under its literal or its hashed name: the checksums
\* register its data file and its mark file or, when the part has no
\* checksums, its mark file is on storage
StoredStream(full_stream_name) ==
    \E n \in {full_stream_name, sipHash128String(full_stream_name)} :
        IF checksumsEmpty
        THEN (n \o getFileExtensionOf(mark_type)) \in DOMAIN storage
        ELSE /\ (n \o DATA_FILE_EXTENSION) \in DOMAIN checksums.files
             /\ (n \o getFileExtensionOf(mark_type)) \in DOMAIN checksums.files

(* C14, as claimed: for every stream of every column of the part that is      *)
(* stored, under its literal or under its hashed name, the mark decoder, the  *)
(* size calculation, checkConsistency in both branches and hasColumnFiles use *)
(* one and the same file name.                                                *)
C14_OneNameForAStream ==
    \A c \in Range(columns) : \A s \in Range(StreamNames(c)) :
        StoredStream(s) => Cardinality(MarkFileNamesUsed(s)) = 1

\* the resolved name of the stream is found in the checksums with the data
\* extension and with the mark extension
LookupSucceeds(full_stream_name) ==
    LET stream_name == getFileNameOrHash(full_stream_name)
    IN {stream_name \o DATA_FILE_EXTENSION, stream_name \o getMarksFileExtension}
          \subseteq DOMAIN checksums.files

RequiredCheckPassed ==
    last.op = "checkConsistency" /\ last.require /\ last.status = "OK"

(* C15, as claimed: on every part on which checkConsistency(true) has passed, *)
(* the resolved name of every stream of every column is found in the          *)
(* checksums, with the data and with the mark extension.                      *)
C15_PassedCheckImpliesLookup ==
    RequiredCheckPassed =>
        \A c \in Range(columns) : \A s \in Range(StreamNames(c)) : LookupSucceeds(s)

(* C15, amended: on every part with checksums on which checkConsistency(true) *)
(* has passed, the resolved name of every stream of every column is found in  *)
(* the checksums, with the data and with the mark extension; on a part        *)
(* without checksums the call checks the mark files on storage instead and    *)
(* says nothing about the checksums.                                          *)
C15_PassedFullCheckImpliesLookup ==
    (RequiredCheckPassed /\ ~checksumsEmpty) =>
        \A c \in Range(columns) : \A s \in Range(StreamNames(c)) : LookupSucceeds(s)

\* the check has passed on a part of two columns of which a stream is
\* registered under its hashed name
C15_Witness ==
    /\ RequiredCheckPassed /\ ~checksumsEmpty
    /\ Len(columns) = 2
    /\ \E s \in Range(StreamNames(columns[2])) :
          /\ getFileNameOrHash(s) = sipHash128String(s)
          /\ LookupSucceeds(s)

----------------------------------------------------------------------------
(* Sizes of a part without checksums *)

(* C16, as claimed: on a part without checksums, getColumnSizeImpl gives the  *)
(* zero size for every column, and calculateEachColumnSizes yields a zero     *)
(* total and a zero size for every column of the part.                        *)
C16_NoChecksumsAllZero ==
    checksumsEmpty =>
        /\ \A c \in Range(columns) : getColumnSizeImpl(c, {}, FALSE).size = ZeroSize
        /\ last.op = "calculateEachColumnSizes" =>
              /\ last.status = "OK"
              /\ last.total = ZeroSize
              /\ DOMAIN last.each = Range(columns)
              /\ \A c \in Range(columns) : last.each[c] = ZeroSize

----------------------------------------------------------------------------
(* The order of checkConsistency *)

\* the streams of the part as <<column position, stream position>>, and the
\* order in which the columns and their streams are enumerated
StreamPositions ==
    UNION {{<<i, j>> : j \in DOMAIN StreamNames(columns[i])} : i \in DOMAIN columns}

ComesBefore(p, q) == p[1] < q[1] \/ (p[1] = q[1] /\ p[2] < q[2])

StreamAt(p) == StreamNames(columns[p[1]])[p[2]]

MarkEntryOf(p) == getFileNameOrHash(StreamAt(p)) \o getFileExtensionOf(mark_type)

DataEntryOf(p) == getFileNameOrHash(StreamAt(p)) \o DATA_FILE_EXTENSION

\* the mark file the check without checksums looks at for the stream, if any
MarkFileSeenAt(p) == MarksPathWithoutChecksums(StreamAt(p)) \in DOMAIN storage

MarkFileSizeAt(p) == storage[MarksPathWithoutChecksums(StreamAt(p))].size

\* the stream has a violation: with checksums an entry is missing; without,
\* its mark file is empty or differs in size from a mark file before it
ViolationAt(p) ==
    IF checksumsEmpty
    THEN /\ MarkFileSeenAt(p)
         /\ \/ MarkFileSizeAt(p) = 0
            \/ \E q \in StreamPositions :
                  ComesBefore(q, p) /\ MarkFileSeenAt(q) /\ MarkFileSizeAt(q) # MarkFileSizeAt(p)
    ELSE MarkEntryOf(p) \notin DOMAIN checksums.files
            \/ DataEntryOf(p) \notin DOMAIN checksums.files

Violations == {p \in StreamPositions : ViolationAt(p)}

FirstViolation == CHOOSE p \in Violations : \A q \in Violations : q = p \/ ComesBefore(p, q)

\* a checkConsistency that enters its loops has returned or thrown
LoopingCheck == last.op = "checkConsistency" /\ (checksumsEmpty \/ last.require)

\* the error is that of the first violation: the missing entry, the mark file
\* before the data file; the empty mark file; or sizes that differ
ErrorOfFirstViolation ==
    LET p == FirstViolation
    IN IF ~checksumsEmpty
       THEN /\ last.status = "NO_FILE_IN_DATA_PART"
            /\ last.err_column = columns[p[1]]
            /\ last.err_file = IF MarkEntryOf(p) \notin DOMAIN checksums.files
                               THEN MarkEntryOf(p)
                               ELSE DataEntryOf(p)
       ELSE /\ last.status = "BAD_SIZE_OF_FILE_IN_DATA_PART"
            /\ last.err_column = ""
            /\ last.err_file = IF MarkFileSizeAt(p) = 0
                               THEN MarksPathWithoutChecksums(StreamAt(p))
                               ELSE ""

\* the error names the column or a file of the stream of the first violation
ErrorNamesFirstViolation ==
    LET p == FirstViolation
    IN \/ last.err_column = columns[p[1]]
       \/ last.err_file \in {MarkEntryOf(p), DataEntryOf(p),
                             MarksPathWithoutChecksums(StreamAt(p))}

----------------------------------------------------------------------------
(* Mark files of a size that is not a number of records *)

\* the load has been tried on a part whose format is neither adaptive nor
\* compressed and whose decoded mark file is on storage
FixedFormatLoadTried ==
    /\ pc # "constructed"
    /\ ~mark_type.adaptive /\ ~mark_type.compressed
    /\ columns # <<>>
    /\ LoadedMarksPath \in DOMAIN storage

(* C18: for a format that is neither adaptive nor compressed the load accepts *)
(* a mark file of any size, also one that is not a multiple of 16 bytes, is   *)
(* shorter than a record or is empty: nothing is thrown, the table is marked  *)
(* initialized and has floor(size / 16) marks.                                *)
C18_AnySizeAccepted ==
    FixedFormatLoadTried =>
        LET size == storage[LoadedMarksPath].size
            count == Len(index_granularity.marks)
        IN /\ pc = "loaded"
           /\ index_granularity.initialized
           /\ count * MarkSizeNonAdaptive <= size
           /\ size < (count + 1) * MarkSizeNonAdaptive

\* a mark file of half a record has been accepted: no mark, initialized
C18_Witness ==
    /\ FixedFormatLoadTried
    /\ pc = "loaded"
    /\ storage[LoadedMarksPath].size = 8
    /\ index_granularity = [marks |-> <<>>, initialized |-> TRUE]

----------------------------------------------------------------------------
(* The marks of any column *)

\* the names under which the mark file of a stream is on storage
StoredNamesOf(full_stream_name) ==
    {n \in {full_stream_name, sipHash128String(full_stream_name)} :
        getMarksFilePath(n) \in DOMAIN storage}

\* checkConsistency has looked at the part and accepted it, and the part has
\* not been loaded yet: its index granularity is empty
AcceptedBeforeLoad ==
    /\ pc = "constructed"
    /\ last.op = "checkConsistency" /\ last.status = "OK"
    /\ checksumsEmpty \/ last.require
    /\ columns # <<>>

(* C19, as claimed: on a part that checkConsistency accepts and whose load    *)
(* (from the first stream of the first column) succeeds, the mark file of     *)
(* every stream of every column is there and decodes to the same index        *)
(* granularity as the load gives.                                             *)
C19_AnyColumnsMarksSuffice ==
    (AcceptedBeforeLoad /\ loadIndexGranularity.status = "OK") =>
        \A c \in Range(columns) : \A s \in Range(StreamNames(c)) :
            /\ StoredNamesOf(s) # {}
            /\ \A n \in StoredNamesOf(s) :
                  /\ loadIndexGranularityImpl(n).status = "OK"
                  /\ loadIndexGranularityImpl(n).granularity = loadIndexGranularity.granularity

----------------------------------------------------------------------------
\* the packets of the source's blocks among the packets received (the header is
\* a Data packet as well)
DataReceived == SelectSeq(received, LAMBDA p : p.type = "Data" /\ p.block.kind = "data")

\* a block pulled from the source and not yet taken by receivePacket
PendingData ==
    IF state.has_value /\ state.block.has_value /\ state.block.value.kind = "data" THEN 1 ELSE 0

InProductionOrder ==
    /\ Len(DataReceived) <= Len(query.blocks)
    /\ \A i \in 1..Len(DataReceived) : DataReceived[i].block = query.blocks[i]

FinishedOnlyWhenExhausted ==
    /\ (state.has_value /\ state.is_finished) => Exhausted(query)
    /\ query.finished => Exhausted(query)

NoBlockLost == query.pulled = Len(DataReceived) + PendingData

\* C20: for a query that raises no exception, the blocks of the source are
\* received as Data packets once each and in production order, a block pulled
\* is received or pending, and the query is marked finished only when the
\* source is exhausted.
C20_EveryBlockDelivered ==
    ~query.raised => (InProductionOrder /\ FinishedOnlyWhenExhausted /\ NoBlockLost)

----------------------------------------------------------------------------
PacketType(i) == received[i].type

\* Data before Totals before Extremes, Totals and Extremes once at most
BlocksInOrder ==
    \A i, j \in 1..Len(received) :
        i < j =>
           /\ PacketType(i) = "Totals" => PacketType(j) \notin {"Data", "Totals"}
           /\ PacketType(i) = "Extremes" => PacketType(j) \notin {"Data", "Totals", "Extremes"}

\* no packet but EndOfStream follows an EndOfStream packet
NothingAfterEndOfStream ==
    \A i, j \in 1..Len(received) :
        (i < j /\ PacketType(i) = "EndOfStream") => PacketType(j) = "EndOfStream"

ProgressPackets == Len(SelectSeq(received, LAMBDA p : p.type = "Progress"))

\* the last Progress packet of the query has been announced
LastProgressSent == (state.has_value /\ state.sent_progress) \/ query.finished

\* a Progress packet is a periodic one or the last one, and there is one last one
LastProgressOnce ==
    ProgressPackets <= query.waits + (IF LastProgressSent THEN 1 ELSE 0)

\* this step of the query delivers a packet
PacketDelivered == query'.number = query.number /\ Len(received') = Len(received) + 1

DeliveredType == received'[Len(received')].type

\* C21 as stated: Data, then Totals, then Extremes, then the last Progress,
\* then EndOfStream as the last packet of the query; Totals, Extremes and the
\* last Progress once at most.
C21_EndOfStreamComesLast ==
    BlocksInOrder /\ LastProgressOnce /\ NothingAfterEndOfStream

\* C21, amended: Data, then Totals, then Extremes (each once at most), then
\* the last Progress (once), then the EndOfStream of finishQuery, after which
\* only EndOfStream is delivered; no Data once the query is marked finished.
\* An EndOfStream packet may also come earlier, from a receivePacket whose
\* poll found nothing ready.
C21_PacketOrder ==
    /\ [](BlocksInOrder /\ LastProgressOnce)
    /\ [][PacketDelivered =>
            /\ (state.has_value /\ state.sent_progress) =>
                   DeliveredType \in {"Progress", "EndOfStream"}
            /\ query.finished => DeliveredType = "EndOfStream"
            /\ ((state'.has_value /\ state'.is_finished) \/ query'.finished) =>
                   DeliveredType # "Data"]_vars

C21_Witness ==
    /\ query.finished
    /\ \E i, j, k, l \in 1..Len(received) :
          /\ i < j /\ j < k /\ k < l
          /\ received[i].block.kind = "data"
          /\ PacketType(j) = "Totals"
          /\ PacketType(k) = "Extremes"
          /\ PacketType(l) = "EndOfStream"

----------------------------------------------------------------------------
\* an exception is recorded for the query in flight
ExceptionRecorded(st) == st.has_value /\ st.exception

AfterException == {"Exception"} \cup (IF send_progress THEN {"Progress"} ELSE {})

\* C22: once an exception is recorded for the query, receivePacket returns
\* Exception packets (and periodic Progress packets when send_progress) and
\* nothing else, the totals, the extremes and the last progress are never
\* announced, and the state stays, with its exception, until the next
\* sendQuery.
C22_ExceptionIsSticky ==
    /\ [](ExceptionRecorded(state) =>
             (~state.sent_totals /\ ~state.sent_extremes /\ ~state.sent_progress
              /\ next_packet_type \in {"nullopt"} \cup AfterException))
    /\ [][(ExceptionRecorded(state) /\ query'.number = query.number) =>
             (ExceptionRecorded(state') /\ ~query'.finished)]_vars
    /\ [][(PacketDelivered /\ (ExceptionRecorded(state) \/ ExceptionRecorded(state'))) =>
             DeliveredType \in AfterException]_vars

\* an exception recorded in poll, after a block of the query was received,
\* and reported by two calls of receivePacket
C22_Witness ==
    /\ ExceptionRecorded(state)
    /\ Len(received) >= 3
    /\ \E i \in 1..Len(received) : received[i].block.kind = "data"
    /\ PacketType(Len(received)) = "Exception"
    /\ PacketType(Len(received) - 1) = "Exception"

----------------------------------------------------------------------------
\* the client has received the EndOfStream packet of a query that is finished
\* (io.onFinish called) and released
EndOfStreamReceived ==
    /\ query.finished
    /\ ~state.has_value
    /\ received # <<>>
    /\ received[Len(received)].type = "EndOfStream"

\* C23: a query whose source is exhausted in the end and that raises no
\* exception leads, for a client that keeps calling receivePacket, to an
\* EndOfStream packet received with the query finished and its state released
\* (the client sends no other query before the end of this one).
C23_EndOfStreamInTheEnd ==
    (query.number > 0 /\ ~query.raised) ~> (query.raised \/ EndOfStreamReceived)

\* the end of a query whose blocks were pulled after a wait
C23_Witness ==
    /\ EndOfStreamReceived
    /\ ~query.raised
    /\ query.waits > 0
    /\ query.pulled = MaxBlocks

----------------------------------------------------------------------------
RECURSIVE ProgressReported(_)
\* the sum of the Progress packets among packets
ProgressReported(packets) ==
    IF packets = <<>>
    THEN 0
    ELSE LET p == packets[Len(packets)]
         IN ProgressReported(SubSeq(packets, 1, Len(packets) - 1))
               + (IF p.type = "Progress" THEN p.progress ELSE 0)

\* C24: while the state of the query lives, the Progress packets delivered and
\* the accumulator together hold every increment passed to updateProgress,
\* once each.
C24_EveryIncrementReported ==
    state.has_value => ProgressReported(received) + state.progress = query.increments

----------------------------------------------------------------------------
\* no query is in flight: the connection holds no query state
NoQueryInFlight == ~state.has_value

\* poll returns false, receivePacket returns an EndOfStream packet, and
\* neither changes the connection
IdleCallsChangeNothing ==
    \A elapsed \in BOOLEAN, ready \in BOOLEAN, throws \in BOOLEAN :
        /\ poll(Connection, elapsed, ready, throws) = [c |-> Connection, result |-> FALSE]
        /\ \A racing \in Racing :
              receivePacket(Connection, elapsed, ready, throws, racing)
                 = [c |-> Connection, packet |-> EndOfStreamPacket]

\* a query state as sendQuery leaves it: nothing announced, nothing
\* accumulated, no block but the header
FreshQueryState(st) ==
    /\ st.has_value
    /\ ~st.is_finished /\ ~st.sent_totals /\ ~st.sent_extremes /\ ~st.sent_progress
    /\ st.progress = 0
    /\ st.block \in {NullOptBlock, SomeBlock(Header)}

\* C25: with no query in flight (before the first sendQuery, and from
\* finishQuery to the next sendQuery) poll returns false and receivePacket
\* returns EndOfStream, as often as they are called, and the connection stays
\* as it is; sendQuery then leaves a fresh state, no packet of the last query
\* received or pending, and an exception only if the new query raised one.
C25_IdleUntilSendQuery ==
    /\ [](NoQueryInFlight <=> (query.number = 0 \/ query.finished))
    /\ [](NoQueryInFlight => IdleCallsChangeNothing)
    /\ [][(NoQueryInFlight /\ query'.number = query.number) =>
             /\ UNCHANGED <<send_progress, state, next_packet_type, query>>
             /\ received' # received =>
                    received' = Append(received, EndOfStreamPacket)]_vars
    /\ [][query'.number # query.number =>
             /\ FreshQueryState(state')
             /\ state'.exception = query'.raised
             /\ next_packet_type' =
                    (IF state'.block.has_value /\ ~state'.exception THEN "Data" ELSE "nullopt")
             /\ received' = <<>>]_vars

\* a second query has ended, poll has left the type EndOfStream pending, and
\* receivePacket has returned EndOfStream twice since
C25_Witness ==
    /\ NoQueryInFlight
    /\ query.number >= 2
    /\ next_packet_type = "EndOfStream"
    /\ Len(received) >= 3
    /\ PacketType(Len(received)) = "EndOfStream"
    /\ PacketType(Len(received) - 1) = "EndOfStream"

====
